---- MODULE Spec2Model ----
(***************************************************************************)
(* Model of scraper_connection.py: query_all (the windowed query over the  *)
(* MongoDB collection or the Elasticsearch index, with the optional text   *)
(* rendering of the results) and main (the day-oriented caller that writes *)
(* the rendered text to a file).                                           *)
(*                                                                         *)
(* Strings are sequences of one-character strings.  The code is Python 2   *)
(* with unicode_literals: every literal is a unicode string, and mixing a  *)
(* byte string with a unicode string decodes the bytes as ASCII.           *)
(***************************************************************************)
EXTENDS Integers, Sequences, FiniteSets, TLC

\* ------------------------------------------------------------------ bounds
\* Largest calendar day main is asked to process (days 1..MaxDay).
MaxDay == 2
\* How many times the backing store may be modified while a call is running.
MaxChanges == 1

\* ------------------------------------------------------- program constants
\* Number of leading sentences kept in a header: the slice [:4].
HeaderLen == 4
\* Number of hits an executed Search returns when no size is set.
DefaultSize == 10

\* A day is two ticks: midnight and noon.
TicksPerDay == 2

\* ----------------------------------------------------------------- strings
\* The one non-ASCII character of the model, and its two UTF-8 bytes.
Eacute == "E9"
Utf8Eacute == <<"C3", "A9">>

Digits == <<"0", "1", "2", "3", "4", "5", "6", "7", "8", "9">>

\* '{}'.format(n) for a non-negative integer: its decimal digits.
RECURSIVE NumStr(_)
NumStr(n) ==
    IF n < 10 THEN <<Digits[n + 1]>>
    ELSE NumStr(n \div 10) \o <<Digits[(n % 10) + 1]>>

\* '{:02d}'.format(n): decimal digits, zero-padded to width two.
Pad2(n) == IF n < 10 THEN <<"0">> \o NumStr(n) ELSE NumStr(n)

\* unicode.encode('utf-8'): ASCII characters map to the same byte, the
\* non-ASCII character to its two bytes.
RECURSIVE EncodeUtf8(_)
EncodeUtf8(s) ==
    IF s = <<>> THEN <<>>
    ELSE (IF Head(s) = Eacute THEN Utf8Eacute ELSE <<Head(s)>>)
         \o EncodeUtf8(Tail(s))

\* A byte string can be coerced to unicode (implicit ASCII decode) only if
\* it holds no byte above 0x7f.
AsciiBytes(b) == \A i \in 1..Len(b) : b[i] \notin {"C3", "A9"}

\* A unicode string can be encoded as ASCII only without non-ASCII characters.
AsciiText(s) == \A i \in 1..Len(s) : s[i] # Eacute

IsPrefix(p, s) ==
    /\ Len(p) <= Len(s)
    /\ SubSeq(s, 1, Len(p)) = p

\* s.replace(pat, ''): every non-overlapping occurrence of pat removed,
\* scanning left to right.
RECURSIVE Replace(_, _)
Replace(s, pat) ==
    IF s = <<>> THEN <<>>
    ELSE IF IsPrefix(pat, s)
         THEN Replace(SubSeq(s, Len(pat) + 1, Len(s)), pat)
         ELSE <<Head(s)>> \o Replace(Tail(s), pat)

\* sep.join(parts)
RECURSIVE Join(_, _)
Join(sep, parts) ==
    IF parts = <<>> THEN <<>>
    ELSE IF Len(parts) = 1 THEN parts[1]
    ELSE parts[1] \o sep \o Join(sep, Tail(parts))

\* seq[:n]
Take(seq, n) == SubSeq(seq, 1, IF Len(seq) < n THEN Len(seq) ELSE n)

RECURSIVE StripLeft(_)
StripLeft(s) ==
    IF s # <<>> /\ Head(s) = " " THEN StripLeft(Tail(s)) ELSE s

\* utilities.sentence_segmenter: the text split into its sentences, each
\* ending at a full stop (a trailing fragment is a sentence too), without
\* the blanks that separate them.
RECURSIVE SegmentFrom(_, _)
SegmentFrom(s, cur) ==
    IF s = <<>> THEN (IF StripLeft(cur) = <<>> THEN <<>> ELSE <<StripLeft(cur)>>)
    ELSE IF Head(s) = "."
         THEN <<StripLeft(cur \o <<".">>)>> \o SegmentFrom(Tail(s), <<>>)
         ELSE SegmentFrom(Tail(s), cur \o <<Head(s)>>)

sentence_segmenter(content) == SegmentFrom(content, <<>>)

\* ----------------------------------------------------------------- records
Short == <<"a", ".">>
Long == <<"a", ".", " ", "b", ".", " ", "c", ".", " ", "d", ".", " ", "e", ".">>
\* Stand-in for the browser-warning literal removed from aljazeera stories.
Boilerplate == <<"W", ".">>
Boiled == <<"a", ".", " ">> \o Boilerplate \o <<"b", ".">> \o Boilerplate
Accented == <<Eacute, ".">>

Post(id, source, ts, stanford, content, url) ==
    [id |-> id, source |-> source, ts |-> ts, stanford |-> stanford,
     content |-> content, url |-> url, date |-> <<"d">> \o NumStr(ts)]

\* The stories the store may hold.  ts is date_added in the MongoDB
\* collection and published_date in the Elasticsearch index.
Core ==
    { Post(1, "reuters", 2, 1, Long, <<"u", "1">>),
      Post(2, "reuters", 3, 1, Accented, <<"u", "2">>),
      Post(3, "aljazeera", 3, 0, Boiled, <<"u", "3">>),
      Post(4, "reuters", 4, 1, Boiled, <<"u", "4">>),
      Post(5, "other", 3, 1, Short, <<"u", "5">>),
      Post(6, "reuters", 3, 1, Short, <<"u", Eacute>>) }

\* Stories of one further source, enough of them to exceed one page of hits.
NBulk == DefaultSize + 1
Bulk(k) == { Post(100 + i, "wire", 3, 1, Short, <<"w">>) : i \in 1..k }

\* The stories another process may insert or delete while a call runs.
Volatile == Core

SourceLists == { {"reuters"}, {"reuters", "aljazeera"} }
Stems == { <<>>, <<"o", "u", "t">> }
QueryGt == {2, 3}
QueryLt == {3, 4}
ProcessDates == [year : {2024}, month : {1}, day : 1..MaxDay]

\* Natural order of a result: by insertion, which the ids follow.
RECURSIVE SortById(_)
SortById(S) ==
    IF S = {} THEN <<>>
    ELSE LET r == CHOOSE x \in S : \A y \in S : x.id <= y.id
         IN <<r>> \o SortById(S \ {r})

\* ----------------------------------------------------------- the two stores
\* The strict query without its lower bound.
StrictFilterNoLower(r, lt, gt, srcs) ==
    r.ts < lt /\ r.source \in srcs

\* {"$and": [{"date_added": {"$lt": lt}}, {"date_added": {"$gt": gt}},
\*           {"source": {"$in": sources}}]}
StrictFilter(r, lt, gt, srcs) ==
    r.ts < lt /\ r.ts > gt /\ r.source \in srcs

\* The primary query with $lt in place of $lte.
PrimaryFilterStrict(r, lt, gt, srcs) ==
    r.ts < lt /\ r.ts > gt /\ r.source \in srcs

\* {"$and": [{"date_added": {"$lte": lt}}, {"date_added": {"$gt": gt}},
\*           {"source": {"$in": sources}}]}
PrimaryFilter(r, lt, gt, srcs) ==
    r.ts <= lt /\ r.ts > gt /\ r.source \in srcs

\* datetime.strftime('%Y-%m-%dT%X.%f%z'): the day, then the time of day.
Strftime(t) == NumStr(t \div TicksPerDay) \o <<"T">> \o Pad2(t % TicksPerDay)

DigitValue(c) == (CHOOSE i \in 1..10 : Digits[i] = c) - 1

RECURSIVE ParseNum(_)
ParseNum(s) ==
    IF s = <<>> THEN 0
    ELSE ParseNum(SubSeq(s, 1, Len(s) - 1)) * 10 + DigitValue(s[Len(s)])

\* The index parsing a formatted date back into an instant.
ParseTime(s) ==
    LET k == CHOOSE i \in 1..Len(s) : s[i] = "T"
    IN ParseNum(SubSeq(s, 1, k - 1)) * TicksPerDay
       + ParseNum(SubSeq(s, k + 1, Len(s)))

\* The range filter with "gte" in place of "gt".
SearchFilterGte(r, lt_time, gt_time) ==
    /\ r.ts < ParseTime(lt_time)
    /\ r.ts >= ParseTime(gt_time)
    /\ r.stanford = 1

\* .filter("range", published_date={"lt": lt_time, "gt": gt_time})
\* .filter("term", stanford=1)
SearchFilter(r, lt_time, gt_time) ==
    /\ r.ts < ParseTime(lt_time)
    /\ r.ts > ParseTime(gt_time)
    /\ r.stanford = 1

\* s.execute(): the total number of matches, and the first page of hits.
Execute(st, lt_time, gt_time) ==
    LET matches == SortById({ r \in st : SearchFilter(r, lt_time, gt_time) })
    IN [total |-> Len(matches), hits |-> Take(matches, DefaultSize)]

\* ---------------------------------------------------------------- rendering
\* Lines 67-71: the content as UTF-8 bytes, without the boilerplate for an
\* aljazeera story.
Cleaned(post) ==
    IF post.source = "aljazeera"
    THEN Replace(EncodeUtf8(post.content), Boilerplate)
    ELSE EncodeUtf8(post.content)

\* Lines 67-74 raise nothing: the unicode arguments of replace and the
\* unicode separator of join coerce the bytes, which must then be ASCII.
Renders(post) == AsciiBytes(EncodeUtf8(post.content))

\* The header without the slice [:4].
HeaderUnsliced(post) == Join(<<" ", " ">>, sentence_segmenter(Cleaned(post)))

\* Line 72
Header(post) == Join(<<" ", " ">>, Take(sentence_segmenter(Cleaned(post)), HeaderLen))

\* Lines 73-74: '{}\t{}\t{}\n{}\n'.format(num, post['date'], post['url'], header)
Block(n, post) ==
    NumStr(n) \o <<"\t">> \o post.date \o <<"\t">> \o post.url \o <<"\n">>
    \o Header(post) \o <<"\n">>

\* unicode.decode('utf-8') of the bytes of an ASCII text.
RECURSIVE DecodeUtf8(_)
DecodeUtf8(b) ==
    IF b = <<>> THEN <<>>
    ELSE IF IsPrefix(Utf8Eacute, b)
         THEN <<Eacute>> \o DecodeUtf8(SubSeq(b, Len(Utf8Eacute) + 1, Len(b)))
         ELSE <<Head(b)>> \o DecodeUtf8(Tail(b))

\* Line 185: '{}{:02d}{:02d}{:02d}.txt'.format(stem, year, month, day)
Filename(stem, d) ==
    stem \o Pad2(d.year) \o Pad2(d.month) \o Pad2(d.day) \o <<".", "t", "x", "t">>

\* datetime.datetime(year, month, day), in ticks.
Midnight(d) == d.day * TicksPerDay

\* -------------------------------------------------------------------- state
VARIABLES
    store,          \* the stories in the collection or the index
    changes,        \* how often the store was modified during the call
    entry,          \* the entry point called: "main" or "query_all"
    elasticsearch, write_file, file_stem, sources, process_date,
    gt_date, lt_date,
    pc,             \* position in main / query_all
    cursor,         \* posts of line 61: the result of the strict query
    num,            \* loop index of line 64
    output,         \* blocks appended at line 75
    final_out,
    response,       \* posts of line 92: the executed search
    posts,          \* the collection query_all returns
    stdout,         \* what print has written
    log,            \* what logger.info has written
    accessLog,      \* the requests sent to the backing store
    filename,
    files           \* the files written, as [name, text] records

vars == <<store, changes, entry, elasticsearch, write_file, file_stem, sources,
          process_date, gt_date, lt_date, pc, cursor, num, output, final_out,
          response, posts, stdout, log, accessLog, filename, files>>

inputs == <<entry, elasticsearch, write_file, file_stem, sources, process_date>>
rendering == <<cursor, num, output, final_out>>

Init ==
    /\ \E core \in SUBSET Core, k \in {0, NBulk} : store = core \cup Bulk(k)
    /\ changes = 0
    /\ elasticsearch \in BOOLEAN
    /\ write_file \in BOOLEAN
    /\ sources \in SourceLists
    /\ process_date \in ProcessDates
    /\ \/ /\ entry = "main"
          /\ file_stem \in Stems
          /\ gt_date = 0 /\ lt_date = 0
          /\ pc = "main"
       \/ /\ entry = "query_all"
          /\ file_stem = <<>>
          /\ gt_date \in QueryGt /\ lt_date \in QueryLt
          /\ process_date.day = 1
          /\ pc = "query_all"
    /\ cursor = <<>> /\ num = 0 /\ output = <<>> /\ final_out = <<>>
    /\ response = [total |-> 0, hits |-> <<>>]
    /\ posts = <<>>
    /\ stdout = <<>> /\ log = <<>> /\ accessLog = <<>>
    /\ filename = <<>> /\ files = {}

\* Lines 167-178 of main: the window around the day, then the call.
MainCall ==
    /\ pc = "main"
    /\ LET less_than == Midnight(process_date)
       IN /\ gt_date' = less_than - TicksPerDay
          /\ lt_date' = less_than + TicksPerDay
    /\ pc' = "query_all"
    /\ UNCHANGED <<store, changes, inputs, rendering, response, posts, stdout,
                   log, accessLog, filename, files>>

\* Lines 58-64: the strict query, sent when the loop starts to iterate.
FindStrict ==
    /\ pc = "query_all" /\ ~elasticsearch /\ write_file
    /\ cursor' = SortById({ r \in store :
                             StrictFilter(r, lt_date, gt_date, sources) })
    /\ num' = 0
    /\ output' = <<>>
    /\ accessLog' = Append(accessLog, "find_lt")
    /\ pc' = "render"
    /\ UNCHANGED <<store, changes, inputs, gt_date, lt_date, final_out,
                   response, posts, stdout, log, filename, files>>

\* The loop body without its try/except: a failure leaves query_all.
RenderPostUncaught ==
    /\ pc = "render" /\ num < Len(cursor)
    /\ LET post == cursor[num + 1]
       IN IF Renders(post)
          THEN /\ output' = Append(output, Block(num, post))
               /\ num' = num + 1
               /\ pc' = pc
          ELSE /\ pc' = "raised"
               /\ UNCHANGED <<output, num>>
    /\ UNCHANGED <<store, changes, inputs, gt_date, lt_date, cursor, stdout,
                   final_out, response, posts, log, accessLog, filename, files>>

\* Lines 64-77: one pass of the loop body.
RenderPost ==
    /\ pc = "render" /\ num < Len(cursor)
    /\ LET post == cursor[num + 1]
       IN IF Renders(post)
          THEN /\ output' = Append(output, Block(num, post))
               /\ UNCHANGED stdout
          ELSE /\ stdout' = Append(stdout, [line |-> "Error on entry", n |-> num])
               /\ UNCHANGED output
    /\ num' = num + 1
    /\ UNCHANGED <<store, changes, inputs, gt_date, lt_date, pc, cursor,
                   final_out, response, posts, log, accessLog, filename, files>>

\* Line 78, once the cursor is exhausted.
RenderJoin ==
    /\ pc = "render" /\ num = Len(cursor)
    /\ final_out' = Join(<<"\n">>, output)
    /\ pc' = "find"
    /\ UNCHANGED <<store, changes, inputs, gt_date, lt_date, cursor, num, output,
                   response, posts, stdout, log, accessLog, filename, files>>

\* posts.count(): a count command for the primary query of line 80.
Count(st) ==
    Cardinality({ r \in st : PrimaryFilter(r, lt_date, gt_date, sources) })

\* Lines 80-82 (the cursor is only built) and line 98.
CountPrint ==
    /\ \/ pc = "find"
       \/ pc = "query_all" /\ ~elasticsearch /\ ~write_file
    /\ stdout' = Append(stdout, [line |-> "Total number of stories", n |-> Count(store)])
    /\ accessLog' = Append(accessLog, "count")
    /\ pc' = "count"
    /\ UNCHANGED <<store, changes, inputs, gt_date, lt_date, rendering, response,
                   posts, log, filename, files>>

\* Line 99 logging the count line 98 obtained, without a second command.
CountLogCached ==
    /\ pc = "count"
    /\ log' = Append(log, stdout[Len(stdout)])
    /\ pc' = "list"
    /\ UNCHANGED <<store, changes, inputs, gt_date, lt_date, rendering, response,
                   posts, stdout, accessLog, filename, files>>

\* Line 99
CountLog ==
    /\ pc = "count"
    /\ log' = Append(log, [line |-> "Total number of stories", n |-> Count(store)])
    /\ accessLog' = Append(accessLog, "count")
    /\ pc' = "list"
    /\ UNCHANGED <<store, changes, inputs, gt_date, lt_date, rendering, response,
                   posts, stdout, filename, files>>

\* Line 101, document store: list(posts) sends the primary query and drains it.
ListPosts ==
    /\ pc = "list"
    /\ posts' = SortById({ r \in store :
                            PrimaryFilter(r, lt_date, gt_date, sources) })
    /\ accessLog' = Append(accessLog, "find_lte")
    /\ pc' = "return"
    /\ UNCHANGED <<store, changes, inputs, gt_date, lt_date, rendering, response,
                   stdout, log, filename, files>>

\* Lines 87-92
SearchExecute ==
    /\ pc = "query_all" /\ elasticsearch
    /\ LET lt_time == Strftime(lt_date)
           gt_time == Strftime(gt_date)
       IN response' = Execute(store, lt_time, gt_time)
    /\ accessLog' = Append(accessLog, "search")
    /\ pc' = "report"
    /\ UNCHANGED <<store, changes, inputs, gt_date, lt_date, rendering, posts,
                   stdout, log, filename, files>>

\* Lines 94-96 and 101, search index.
SearchReport ==
    /\ pc = "report"
    /\ stdout' = Append(stdout, [line |-> "Total number of stories", n |-> response.total])
    /\ log' = Append(log, [line |-> "Total number of stories", n |-> response.total])
    /\ posts' = response.hits
    /\ pc' = "return"
    /\ UNCHANGED <<store, changes, inputs, gt_date, lt_date, rendering, response,
                   accessLog, filename, files>>

\* Line 103
Return ==
    /\ pc = "return"
    /\ pc' = IF entry = "main" THEN "write" ELSE "done"
    /\ UNCHANGED <<store, changes, inputs, gt_date, lt_date, rendering, response,
                   posts, stdout, log, accessLog, filename, files>>

\* Lines 180-194 of main.  text.decode('utf-8') on a unicode text first
\* encodes it as ASCII, which raises UnicodeEncodeError on a non-ASCII
\* character.
MainWrite ==
    /\ pc = "write"
    /\ IF final_out = <<>>
       THEN /\ pc' = "done"
            /\ UNCHANGED <<filename, files, stdout>>
       ELSE IF ~AsciiText(final_out)
       THEN /\ pc' = "raised"
            /\ UNCHANGED <<filename, files, stdout>>
       ELSE LET text == DecodeUtf8(final_out)
            IN IF file_stem # <<>>
               THEN /\ filename' = Filename(file_stem, process_date)
                    /\ files' = files \cup {[name |-> filename', text |-> text]}
                    /\ pc' = "done"
                    /\ UNCHANGED stdout
               ELSE /\ stdout' = Append(stdout, [line |-> "Need filestem", n |-> 0])
                    /\ pc' = "done"
                    /\ UNCHANGED <<filename, files>>
    /\ UNCHANGED <<store, changes, inputs, gt_date, lt_date, rendering, response,
                   posts, log, accessLog>>

\* Another client of the store, between two requests of the call.
Between == pc \in {"render", "find", "count", "list"}

StoreInsert ==
    /\ Between /\ changes < MaxChanges
    /\ \E r \in Volatile \ store : store' = store \cup {r}
    /\ changes' = changes + 1
    /\ UNCHANGED <<inputs, gt_date, lt_date, pc, rendering, response, posts,
                   stdout, log, accessLog, filename, files>>

StoreDelete ==
    /\ Between /\ changes < MaxChanges
    /\ \E r \in Volatile \cap store : store' = store \ {r}
    /\ changes' = changes + 1
    /\ UNCHANGED <<inputs, gt_date, lt_date, pc, rendering, response, posts,
                   stdout, log, accessLog, filename, files>>

Next ==
    \/ MainCall
    \/ FindStrict
    \/ RenderPost
    \/ RenderJoin
    \/ CountPrint
    \/ CountLog
    \/ ListPosts
    \/ SearchExecute
    \/ SearchReport
    \/ Return
    \/ MainWrite
    \/ StoreInsert
    \/ StoreDelete

Spec == Init /\ [][Next]_vars

\* ------------------------------------------------------------------ claims
\* query_all has handed (posts, final_out) back to its caller.
Returned == pc \in {"return", "write", "done", "raised"}

\* The loop and the join of lines 64-78 are behind the call.
Rendered == ~elasticsearch /\ write_file /\ pc \in {"find", "count", "list"} \cup {"return", "write", "done", "raised"}

Range(seq) == { seq[i] : i \in 1..Len(seq) }

\* The index a block of the artifact starts with.
BlockIndex(block) ==
    LET k == CHOOSE i \in 1..Len(block) : block[i] = "\t" /\ \A j \in 1..(i - 1) : block[j] # "\t"
    IN ParseNum(SubSeq(block, 1, k - 1))

\* The stories that have a block in the artifact.
BlockPosts == { cursor[BlockIndex(output[k]) + 1] : k \in 1..Len(output) }

\* The positions the diagnostics of the loop name.
ErrorIndexes == { l.n : l \in { x \in Range(stdout) : x.line = "Error on entry" } }

\* The totals the call has reported, on stdout and in the log.
Reported ==
    { l.n : l \in { x \in Range(stdout) \cup Range(log) : x.line = "Total number of stories" } }

HasAccent(post) == \E i \in 1..Len(post.content) : post.content[i] = Eacute

RECURSIVE CountChar(_, _)
CountChar(s, c) ==
    IF s = <<>> THEN 0
    ELSE (IF Head(s) = c THEN 1 ELSE 0) + CountChar(Tail(s), c)

C2_ExplicitError ==
    ~(elasticsearch /\ write_file /\ Returned /\ final_out = <<>>)

\* C3: for a well-formed interval, with the store left alone, every total the
\* call reports equals the number of stories in the returned collection.
C3_CountEqualsDrained ==
    (Returned /\ gt_date < lt_date /\ sources # {} /\ changes = 0) =>
        \A n \in Reported : n = Len(posts)

\* C4: every returned story is from a listed source, on either backend.
C4_SourcesOnly ==
    Returned => \A r \in Range(posts) : r.source \in sources

\* C5: a story that fails in the loop stops nothing: once the loop is left,
\* every story of the cursor was visited, exactly the failing positions were
\* reported, and the artifact holds one block per other story (none: the
\* empty string).
C5_RenderSurvives ==
    (~elasticsearch /\ write_file /\ pc \notin {"main", "query_all", "render"}) =>
        /\ num = Len(cursor)
        /\ ErrorIndexes = { i \in 0..(Len(cursor) - 1) : HasAccent(cursor[i + 1]) }
        /\ Len(output) = Len(cursor) - Cardinality(ErrorIndexes)
        /\ CountChar(final_out, "\t") = 2 * (Len(cursor) - Cardinality(ErrorIndexes))
        /\ (Cardinality(ErrorIndexes) = Len(cursor)) => final_out = <<>>

C5_Witness ==
    /\ ~elasticsearch /\ write_file /\ pc = "done"
    /\ \E e \in ErrorIndexes : \E k \in 1..Len(output) : e < BlockIndex(output[k])

\* C6: main writes a file exactly when the rendered text is non-empty and a
\* stem was given, and returns a non-empty filename exactly when it wrote one;
\* with text but no stem it prints the diagnostic, writes nothing and returns
\* the empty filename.
C6_FileIffTextAndStem ==
    (entry = "main" /\ pc \in {"done", "raised"}) =>
        /\ (files # {}) <=> (final_out # <<>> /\ file_stem # <<>>)
        /\ (pc = "done") => ((filename # <<>>) <=> (files # {}))
        /\ (final_out # <<>> /\ file_stem = <<>>) =>
               /\ pc = "done"
               /\ \E l \in Range(stdout) : l.line = "Need filestem"
               /\ files = {} /\ filename = <<>>

\* The artifact of a cursor, written out from the claim: the blocks of the
\* stories without an accent, each under its own position, a newline between
\* consecutive blocks.
C7_Min(a, b) == IF a < b THEN a ELSE b

C7_Header(post) ==
    LET ss == sentence_segmenter(Cleaned(post))
        n == C7_Min(4, Len(ss))
        RECURSIVE upto(_)
        upto(k) == IF k = 0 THEN <<>>
                   ELSE IF k = 1 THEN ss[1]
                   ELSE upto(k - 1) \o <<" ", " ">> \o ss[k]
    IN upto(n)

C7_Block(i, post) ==
    NumStr(i) \o <<"\t">> \o post.date \o <<"\t">> \o post.url \o <<"\n">>
    \o C7_Header(post) \o <<"\n">>

RECURSIVE C7_Artifact(_, _)
C7_Artifact(recs, k) ==
    \* the artifact of the first k stories of recs
    IF k = 0 THEN <<>>
    ELSE LET before == C7_Artifact(recs, k - 1)
         IN IF HasAccent(recs[k]) THEN before
            ELSE IF before = <<>> THEN C7_Block(k - 1, recs[k])
            ELSE before \o <<"\n">> \o C7_Block(k - 1, recs[k])

\* C7: the artifact is the blocks "{index}\t{date}\t{url}\n{header}\n" of the
\* stories processed without failure, in iteration order, a blank line between
\* consecutive blocks; index is the story's 0-based position in the cursor
\* (a dropped story uses its position up) and header the first min(4, n)
\* sentences of the cleaned content joined by two blanks.
C7_ArtifactFormat ==
    /\ (~elasticsearch /\ write_file /\ pc = "render") =>
           Join(<<"\n">>, output) = C7_Artifact(cursor, num)
    /\ Rendered => final_out = C7_Artifact(cursor, Len(cursor))

C7_Witness ==
    /\ Rendered /\ Returned
    /\ Len(output) >= 2
    /\ \E e \in ErrorIndexes : \E k \in 1..Len(output) : e < BlockIndex(output[k])
    /\ \E r \in BlockPosts : Len(sentence_segmenter(Cleaned(r))) > HeaderLen
    /\ \E r \in BlockPosts : r.source = "aljazeera"

\* C8: a story dated exactly gt_date is never in the returned collection and
\* never has a block in the artifact, on either backend, with or without
\* write_file.
C8_LowerBoundExcluded ==
    /\ \A r \in Range(posts) : r.ts # gt_date
    /\ \A r \in BlockPosts : r.ts # gt_date

C8_Witness ==
    /\ pc = "done" /\ changes = 0
    /\ ~elasticsearch /\ write_file
    /\ \E r \in store : r.ts = gt_date /\ r.source \in sources
    /\ posts # <<>> /\ output # <<>>

\* C9 (as stated): one request to the store per call, two on the
\* document-store path with write_file.
C9_RoundTripsAsClaimed ==
    Returned =>
        accessLog = IF elasticsearch THEN <<"search">>
                    ELSE IF write_file THEN <<"find_lt", "find_lte">>
                    ELSE <<"find_lte">>

\* C9 (amended): the search-index path sends one search and nothing else; the
\* document-store path sends the primary query once, after two count
\* commands, and with write_file the strict query before them, which is
\* drained before anything else is sent.
C9_RoundTrips ==
    /\ Returned =>
           accessLog = IF elasticsearch THEN <<"search">>
                       ELSE IF write_file
                            THEN <<"find_lt", "count", "count", "find_lte">>
                            ELSE <<"count", "count", "find_lte">>
    /\ (Len(accessLog) > 1 /\ accessLog[1] = "find_lt") => num = Len(cursor)

C9_Witness ==
    /\ Returned /\ ~elasticsearch /\ write_file
    /\ Len(cursor) >= 2 /\ posts # <<>>

\* C10: on the document-store path with write_file and the store left alone
\* between the two queries, every story with a block is returned, and a
\* returned story has no block only if it is dated exactly lt_date or its
\* processing failed.
C10_BoundaryOnly ==
    (Returned /\ ~elasticsearch /\ write_file /\ changes = 0) =>
        /\ BlockPosts \subseteq Range(posts)
        /\ \A r \in Range(posts) :
               r \notin BlockPosts => (r.ts = lt_date \/ HasAccent(r))

C10_Witness ==
    /\ Returned /\ ~elasticsearch /\ write_file /\ changes = 0
    /\ output # <<>>
    /\ \E r \in Range(posts) : r \notin BlockPosts /\ r.ts = lt_date /\ ~HasAccent(r)

\* C10, second half: with the store modified between the two queries a story
\* with a block may be missing from the returned collection.
C10_RaceBreaksRelation ==
    /\ Returned /\ ~elasticsearch /\ write_file /\ changes > 0
    /\ \E r \in BlockPosts : r \notin Range(posts)
====
